---------------------------- MODULE Spec2Model ----------------------------
(***************************************************************************)
(* X-Plane Plugin Manager (src/Plugin-App.py): the plugin lifecycle        *)
(* handlers of class PluginManager over a bounded file system.             *)
(*                                                                         *)
(* A file name is a sequence of tokens (<<"Foo", "_1", ".zip">> is         *)
(* "Foo_1.zip"), a path a sequence of names.  The plugin root stands for   *)
(* <xplane_folder>/Resources/plugins.  A handler is an operator from the   *)
(* object's state (a record) to a result [s |-> state, exc |-> exception]  *)
(* and one action of Next runs one handler from its first line to its      *)
(* return or to the exception that leaves it.                              *)
(***************************************************************************)
EXTENDS Integers, Sequences, FiniteSets, TLC

VARIABLES fs,               \* the file system: a set of nodes
          version,          \* self.version
          settings_version, \* QSettings "version"
          log_history,      \* self.log_history
          settings_log,     \* QSettings "log_history"
          backup_folder,    \* self.backup_folder: a path, <<>> when unset
          plugin_list,      \* the rows load_plugins put in self.plugin_list
          bumps,            \* calls of increment_version so far (bounds the run)
          outcome           \* the last handler call and how it ended

vars == <<fs, version, settings_version, log_history, settings_log,
          backup_folder, plugin_list, bumps, outcome>>

(***************************************************************************)
(* Bounds                                                                  *)
(***************************************************************************)
\* increment_version calls per run
MaxBumps == 2
\* lines log_history may hold before the logging handlers are no longer called
MaxLogLen == 1

(***************************************************************************)
(* Names and paths                                                         *)
(***************************************************************************)
Foo == <<"Foo">>
BackupName == <<"backup">>
FooZip == <<"Foo", ".zip">>
Foo1Zip == <<"Foo", "_1", ".zip">>

\* "Resources/plugins" under self.xplane_folder
PluginRoot == << <<"plugins">> >>
\* the folder select_backup_folder can choose
ChosenBackup == << <<"B">> >>

\* item.endswith('.zip')
EndsWithZip(name) == Len(name) > 1 /\ name[Len(name)] = ".zip"
\* item[:-4] and os.path.splitext(...)[0] of a name that ends in .zip
StripZip(name) == SubSeq(name, 1, Len(name) - 1)
\* f"{folder}.zip"
ZipName(folder) == folder \o <<".zip">>
\* f"{folder}_{counter}.zip"
CounterToken(counter) == CASE counter = 1 -> "_1"
                           [] counter = 2 -> "_2"
                           [] counter = 3 -> "_3"
                           [] OTHER -> "_n"
NumberedZipName(folder, counter) == folder \o <<CounterToken(counter), ".zip">>

IsPrefix(p, q) == Len(p) <= Len(q) /\ SubSeq(q, 1, Len(p)) = p
\* os.path.relpath(q, p) for q under p
RelPath(p, q) == SubSeq(q, Len(p) + 1, Len(q))
Parent(p) == SubSeq(p, 1, Len(p) - 1)

(***************************************************************************)
(* File contents and the file system                                       *)
(***************************************************************************)
\* A file's content: bytes id with its size, or a zip archive with members.
Blob(id, size) == [kind |-> "blob", id |-> id, size |-> size, members |-> {}]
Archive(members) == [kind |-> "zip", id |-> 0, size |-> 1, members |-> members]
BadZip == [kind |-> "badzip", id |-> 0, size |-> 1, members |-> {}]
NoContent == [kind |-> "dir", id |-> 0, size |-> 0, members |-> {}]

Dir(p) == [path |-> p, isdir |-> TRUE, content |-> NoContent]
File(p, c) == [path |-> p, isdir |-> FALSE, content |-> c]

Exists(f, p) == \E n \in f : n.path = p
IsDir(f, p) == \E n \in f : n.path = p /\ n.isdir
IsFile(f, p) == \E n \in f : n.path = p /\ ~n.isdir
Under(f, p) == {n \in f : IsPrefix(p, n.path)}
\* the tree at p with paths made relative to p
TreeAt(f, p) == {[n EXCEPT !.path = RelPath(p, n.path)] : n \in Under(f, p)}
\* the tree t placed at p
Place(t, p) == {[n EXCEPT !.path = p \o n.path] : n \in t}
\* os.listdir(p)
ListDir(f, p) == {n.path[Len(p) + 1] : n \in {m \in f : IsPrefix(p, m.path) /\ Len(m.path) > Len(p)}}


(***************************************************************************)
(* The os / shutil / zipfile calls the handlers make.  Each returns the    *)
(* new file system and the exception it raises ("none" when it returns).   *)
(* The trees of the model use a relative path either as a file or as a     *)
(* directory, never as both, so a copy or an extraction meets no file in   *)
(* the place of a directory.                                               *)
(***************************************************************************)
Done(f) == [fs |-> f, exc |-> "none"]
Raise(f, e) == [fs |-> f, exc |-> e]

\* shutil.rmtree(p)
RmTree(f, p) ==
    IF ~Exists(f, p) THEN Raise(f, "FileNotFoundError")
    ELSE IF ~IsDir(f, p) THEN Raise(f, "NotADirectoryError")
    ELSE Done(f \ Under(f, p))

\* the directories os.makedirs creates for p: p and its missing ancestors
MissingDirs(f, p) == {Dir(SubSeq(p, 1, i)) : i \in {j \in 1..Len(p) : ~Exists(f, SubSeq(p, 1, j))}}
BlockedByFile(f, p) == \E i \in 1..Len(p) : IsFile(f, SubSeq(p, 1, i))

\* os.makedirs(p, exist_ok=True)
MakeDirsExistOk(f, p) ==
    IF BlockedByFile(f, p) THEN Raise(f, "FileExistsError")
    ELSE Done(f \cup MissingDirs(f, p))

\* os.makedirs(p)
MakeDirs(f, p) ==
    IF Exists(f, p) \/ BlockedByFile(f, p) THEN Raise(f, "FileExistsError")
    ELSE Done(f \cup MissingDirs(f, p))

\* os.rename(src, dst) of shutil.move, with its copytree/rmtree fallback:
\* the tree at src becomes the tree at dst
Renamed(f, src, dst) == (f \ Under(f, src)) \cup Place(TreeAt(f, src), dst)

\* shutil.move(src, dst)
Move(f, src, dst) ==
    LET real_dst == IF IsDir(f, dst) THEN dst \o <<src[Len(src)]>> ELSE dst
    IN  IF IsDir(f, dst) /\ Exists(f, real_dst)
          THEN Raise(f, "Error: Destination path already exists")
        ELSE IF ~Exists(f, src) THEN Raise(f, "FileNotFoundError")
        ELSE IF IsDir(f, src) /\ IsPrefix(src, dst)
          THEN Raise(f, "Error: Cannot move a directory into itself")
        ELSE IF IsDir(f, src) /\ Exists(f, real_dst) THEN Raise(f, "FileExistsError")
        ELSE IF ~Exists(f, Parent(real_dst)) THEN Raise(f, "FileNotFoundError")
        ELSE Done(Renamed(f \ {n \in f : n.path = real_dst}, src, real_dst))

\* zipfile.ZipFile(p, 'r'): the exception opening p raises
OpenZip(f, p) ==
    IF ~Exists(f, p) THEN "FileNotFoundError"
    ELSE IF IsDir(f, p) THEN "IsADirectoryError"
    ELSE IF \E n \in f : n.path = p /\ n.content.kind = "zip" THEN "none"
    ELSE "BadZipFile"

\* zip_ref.namelist() with each member's bytes
Members(f, p) == (CHOOSE n \in f : n.path = p).content.members

\* the directories above the members, which extraction creates when missing
UpperDirs(members, target) ==
    UNION {{target \o SubSeq(m.arc, 1, i) : i \in 0..(Len(m.arc) - 1)} : m \in members}

\* zip_ref.extractall(target): every member written at target/arcname, an
\* existing file of that path overwritten, every other node left alone
ExtractAll(f, members, target) ==
    LET written == {File(target \o m.arc, m.content) : m \in members}
        paths == {n.path : n \in written}
        kept == {n \in f : n.path \notin paths}
        above == UNION {MissingDirs(f, d) : d \in UpperDirs(members, target)}
    IN  IF members # {} /\ BlockedByFile(f, target) THEN Raise(f, "NotADirectoryError")
        ELSE Done(kept \cup written \cup above)

\* shutil.copytree(src, dst, dirs_exist_ok=True), src a tree outside the roots
CopyTree(f, tree, dst) ==
    LET made == MakeDirsExistOk(f, dst)
        copied == Place(tree, dst)
        paths == {n.path : n \in copied}
    IN  IF made.exc # "none" THEN made
        ELSE Done({n \in made.fs : n.path \notin paths} \cup copied)

RECURSIVE SumSizes(_)
SumSizes(nodes) ==
    IF nodes = {} THEN 0
    ELSE LET n == CHOOSE x \in nodes : TRUE
         IN  n.content.size + SumSizes(nodes \ {n})

\* the os.walk loop of backup_plugin that adds up os.path.getsize
TotalSize(f, p) == SumSizes({n \in Under(f, p) : ~n.isdir})

\* the os.walk loop of backup_plugin that writes the archive: one member per
\* file, named by its path relative to the plugin folder
PackMembers(f, p) == {[arc |-> RelPath(p, n.path), content |-> n.content] : n \in {m \in Under(f, p) : ~m.isdir}}

(***************************************************************************)
(* Version strings: a sequence of characters.  float() is modelled on the  *)
(* strings made of digits, "." and letters that have at most three digits  *)
(* after the point (the only ones the model stores); its value is kept in  *)
(* thousandths.                                                            *)
(***************************************************************************)
Digits == <<"0", "1", "2", "3", "4", "5", "6", "7", "8", "9">>
IsDigit(c) == \E i \in 1..10 : Digits[i] = c
DigitVal(c) == (CHOOSE i \in 1..10 : Digits[i] = c) - 1

RECURSIVE DigitsVal(_)
DigitsVal(ds) == IF ds = <<>> THEN 0
                 ELSE 10 * DigitsVal(SubSeq(ds, 1, Len(ds) - 1)) + DigitVal(ds[Len(ds)])

RECURSIVE NatDigits(_)
NatDigits(n) == IF n < 10 THEN <<Digits[n + 1]>>
                ELSE NatDigits(n \div 10) \o <<Digits[(n % 10) + 1]>>

\* float(s) raises ValueError
ValueError == -1

\* float(s) in thousandths, or ValueError
ParseFloat(str) ==
    LET dots == {i \in 1..Len(str) : str[i] = "."}
        point == IF dots = {} THEN Len(str) + 1 ELSE CHOOSE i \in dots : TRUE
        whole == SubSeq(str, 1, point - 1)
        frac == SubSeq(str, point + 1, Len(str))
        padded == frac \o SubSeq(<<"0", "0", "0">>, 1, 3 - Len(frac))
    IN  IF \/ Cardinality(dots) > 1
           \/ \E i \in 1..Len(str) : i \notin dots /\ ~IsDigit(str[i])
           \/ Len(whole) + Len(frac) = 0
        THEN ValueError
        ELSE 1000 * DigitsVal(whole) + DigitsVal(padded)

\* f"{x:.3f}" of x thousandths
FormatFixed3(x) ==
    NatDigits(x \div 1000) \o <<".">> \o
    <<Digits[((x \div 100) % 10) + 1], Digits[((x \div 10) % 10) + 1], Digits[(x % 10) + 1]>>

INITIAL_VERSION == <<"0", ".", "0", "0", "2">>

(***************************************************************************)
(* Handlers.  s is the object's state, a result is [s, exc].               *)
(***************************************************************************)
Ok(s) == [s |-> s, exc |-> "none"]
\* the statements after a call run only when the call returned
Then(r, F(_)) == IF r.exc = "none" THEN F(r.s) ELSE r
\* try: r  except Exception: H
Try(r, H(_)) == IF r.exc = "none" THEN r ELSE H(r.s)
\* an os / shutil call made on the state's file system
OnFs(s, r) == [s |-> [s EXCEPT !.fs = r.fs], exc |-> r.exc]

\* log_output: the line is appended to self.log_history, then line 209
\* compares its length with MAX_LOG_LINES.  No statement of the program binds
\* that name, so the comparison raises NameError and neither the truncation
\* of line 210 nor save_log_history of line 211 is reached.
log_output(s, message) ==
    [s |-> [s EXCEPT !.log_history = Append(@, message)], exc |-> "NameError"]

RECURSIVE log_each(_, _, _)
\* for ... : self.log_output(message), n times round the loop
log_each(s, message, n) ==
    IF n = 0 THEN Ok(s)
    ELSE Then(log_output(s, message), LAMBDA t : log_each(t, message, n - 1))

\* show_popup changes nothing the model holds
show_popup(s) == Ok(s)

\* increment_version adding 0.01
increment_version_hundredth(s) ==
    LET current == ParseFloat(s.version)
        new_version == FormatFixed3(current + 10)
        counted == [s EXCEPT !.bumps = @ + 1]
    IN  IF current = ValueError
        THEN [s |-> counted, ret |-> s.version]
        ELSE [s |-> [counted EXCEPT !.version = new_version,
                                    !.settings_version = new_version],
              ret |-> new_version]

increment_version(s) ==
    LET current == ParseFloat(s.version)
        new_version == FormatFixed3(current + 1)
        counted == [s EXCEPT !.bumps = @ + 1]
    IN  IF current = ValueError
        THEN [s |-> counted, ret |-> s.version]
        ELSE [s |-> [counted EXCEPT !.version = new_version,
                                    !.settings_version = new_version],
              ret |-> new_version]

\* str.lower of a token, and the place of the lowered token in code-point order
Lower(tok) == CASE tok = "Foo" -> "foo"
                [] tok = "B" -> "b"
                [] OTHER -> tok
CodeOrder(tok) == CASE tok = ".zip" -> 1
                    [] tok = "_1" -> 2
                    [] tok = "_2" -> 3
                    [] tok = "_3" -> 4
                    [] tok = "_n" -> 5
                    [] tok = "Foo" -> 6
                    [] tok = "B" -> 7
                    [] tok = "b" -> 8
                    [] tok = "backup" -> 9
                    [] tok = "foo" -> 10
                    [] OTHER -> 11

RECURSIVE LowerLess(_, _)
\* a.lower() < b.lower()
LowerLess(a, b) ==
    IF a = <<>> THEN b # <<>>
    ELSE IF b = <<>> THEN FALSE
    ELSE IF Lower(a[1]) = Lower(b[1]) THEN LowerLess(Tail(a), Tail(b))
    ELSE CodeOrder(Lower(a[1])) < CodeOrder(Lower(b[1]))

RECURSIVE SortedByLower(_)
\* plugins.sort(key=str.lower)
SortedByLower(names) ==
    IF names = {} THEN <<>>
    ELSE LET first == CHOOSE a \in names : \A b \in names \ {a} : ~LowerLess(b, a)
         IN  <<first>> \o SortedByLower(names \ {first})

load_plugins(s) ==
    IF ~Exists(s.fs, PluginRoot) THEN s
    ELSE [s EXCEPT !.plugin_list =
             SortedByLower({folder \in ListDir(s.fs, PluginRoot) : IsDir(s.fs, PluginRoot \o <<folder>>)})]

\* the backup folder the handlers compute from self.backup_folder
BackupPath(s) == IF s.backup_folder # <<>> THEN s.backup_folder
                 ELSE PluginRoot \o <<BackupName>>

delete_plugin(s, folder) ==
    LET s1 == increment_version(s).s
        plugin_path == PluginRoot \o <<folder>>
    IN  Then(OnFs(s1, RmTree(s1.fs, plugin_path)), LAMBDA s2 : Ok(load_plugins(s2)))

disable_plugin(s, folder) ==
    LET s1 == increment_version(s).s
        plugin_path == PluginRoot \o <<folder>>
        backup_path == BackupPath(s1)
    IN  Then(OnFs(s1, MakeDirsExistOk(s1.fs, backup_path)), LAMBDA s2 :
        Then(OnFs(s2, Move(s2.fs, plugin_path, backup_path \o <<folder>>)), LAMBDA s3 :
        Ok(load_plugins(s3))))

RECURSIVE FreeZipName(_, _, _, _, _)
\* the while loop of backup_plugin: the first of folder.zip, folder_1.zip,
\* folder_2.zip, ... that os.path.exists does not find in the backup folder
FreeZipName(f, backup_path, folder, zip_filename, counter) ==
    IF Exists(f, backup_path \o <<zip_filename>>)
    THEN FreeZipName(f, backup_path, folder, NumberedZipName(folder, counter), counter + 1)
    ELSE zip_filename

RECURSIVE write_members(_, _, _, _)
\* the loop inside "with zipfile.ZipFile(zip_path, 'w')": a member is written,
\* then logged; the archive is closed with the members written so far when
\* an exception leaves the block
write_members(s, zip_path, todo, written) ==
    IF todo = {} THEN Ok([s EXCEPT !.fs = {n \in @ : n.path # zip_path} \cup {File(zip_path, Archive(written))}])
    ELSE LET m == CHOOSE x \in todo : TRUE
             now == written \cup {m}
             r == log_output(s, "Added to zip")
         IN  IF r.exc = "none" THEN write_members(r.s, zip_path, todo \ {m}, now)
             ELSE [s |-> [r.s EXCEPT !.fs = {n \in @ : n.path # zip_path} \cup {File(zip_path, Archive(now))}],
                   exc |-> r.exc]

\* the try block of backup_plugin
backup_body(s, folder, plugin_path, zip_path) ==
    LET total_size == TotalSize(s.fs, plugin_path)
    IN  Then(log_output(s, "Total size before compression"), LAMBDA s1 :
        IF total_size = 0
        THEN log_output(s1, "Warning: Plugin folder is empty.")
        ELSE Then(write_members(s1, zip_path, PackMembers(s1.fs, plugin_path), {}), LAMBDA s2 :
             Then(log_output(s2, "Total size after compression"), LAMBDA s3 :
             Then(log_output(s3, "Compression ratio"), LAMBDA s4 :
             log_output(s4, "Plugin backed up successfully")))))

backup_plugin(s, folder) ==
    LET s1 == increment_version(s).s
        plugin_path == PluginRoot \o <<folder>>
        backup_path == BackupPath(s1)
    IN  IF ~Exists(s1.fs, plugin_path)
        THEN log_output(s1, "Error: Plugin folder not found.")
        ELSE Then(OnFs(s1, MakeDirsExistOk(s1.fs, backup_path)), LAMBDA s2 :
             LET zip_filename == FreeZipName(s2.fs, backup_path, folder, ZipName(folder), 1)
                 zip_path == backup_path \o <<zip_filename>>
             IN  Then(log_output(s2, "Backing up plugin"), LAMBDA s3 :
                 Then(log_output(s3, "Source folder"), LAMBDA s4 :
                 Then(log_output(s4, "Creating zip file"), LAMBDA s5 :
                 Try(backup_body(s5, folder, plugin_path, zip_path),
                     LAMBDA s6 : log_output(s6, "Error backing up plugin"))))))

\* the zip branch of restore_plugin, inside its try
restore_zip_body(s, backup_path, plugin_path) ==
    LET opened == OpenZip(s.fs, backup_path)
    IN  IF opened # "none" THEN [s |-> s, exc |-> opened]
        ELSE LET members == Members(s.fs, backup_path)
             IN  Then(OnFs(s, ExtractAll(s.fs, members, plugin_path)), LAMBDA s1 :
                 Then(log_each(s1, "Extracted", Cardinality(members)), LAMBDA s2 :
                 Then(log_output(s2, "Plugin restored successfully from zip."), LAMBDA s3 :
                 show_popup(s3))))

\* the folder branch of restore_plugin, inside its try
restore_folder_body(s, backup_path, plugin_path) ==
    Then(OnFs(s, Move(s.fs, backup_path, plugin_path)), LAMBDA s1 :
    Then(log_output(s1, "Plugin restored successfully."), LAMBDA s2 :
    show_popup(s2)))

restore_plugin(s, item) ==
    LET s1 == increment_version(s).s
        backup_path == BackupPath(s1) \o <<item>>
    IN  Then(log_output(s1, "Restoring plugin"), LAMBDA s2 :
        Then(log_output(s2, "Source"), LAMBDA s3 :
        Then(IF EndsWithZip(item)
             THEN LET plugin_name == StripZip(item)
                      plugin_path == PluginRoot \o <<plugin_name>>
                  IN  Then(log_output(s3, "Extracting to"), LAMBDA s4 :
                      Try(restore_zip_body(s4, backup_path, plugin_path), LAMBDA s5 :
                          Then(log_output(s5, "Error restoring plugin from zip"), LAMBDA s6 :
                          show_popup(s6))))
             ELSE LET plugin_path == PluginRoot \o <<item>>
                  IN  Then(log_output(s3, "Moving to"), LAMBDA s4 :
                      Try(restore_folder_body(s4, backup_path, plugin_path), LAMBDA s5 :
                          Then(log_output(s5, "Error restoring plugin"), LAMBDA s6 :
                          show_popup(s6)))),
             LAMBDA s7 : Ok(load_plugins(s7)))))

\* the try block of delete_backup
delete_backup_body(s, backup_path) ==
    Then(OnFs(s, IF IsDir(s.fs, backup_path) THEN RmTree(s.fs, backup_path)
                 ELSE IF Exists(s.fs, backup_path)
                      THEN Done({n \in s.fs : n.path # backup_path})
                      ELSE Raise(s.fs, "FileNotFoundError")),
         LAMBDA s1 : log_output(s1, "Backup deleted successfully."))

\* show_restore_dialog, which delete_backup ends with, only shows a dialog
delete_backup(s, item) ==
    LET backup_path == BackupPath(s) \o <<item>>
    IN  Then(log_output(s, "Deleting backup"), LAMBDA s1 :
        Then(log_output(s1, "Deleting path"), LAMBDA s2 :
        Try(delete_backup_body(s2, backup_path),
            LAMBDA s3 : log_output(s3, "Error deleting backup"))))

\* the try block of recover_from_zip
recover_body(s, zip_path, plugin_path) ==
    LET opened == OpenZip(s.fs, zip_path)
        members == Members(s.fs, zip_path)
    IN  IF opened # "none" THEN [s |-> s, exc |-> opened]
        ELSE Then(IF Exists(s.fs, plugin_path)
                  THEN Then(log_output(s, "Warning: Plugin directory already exists. Overwriting..."),
                            LAMBDA s1 : OnFs(s1, RmTree(s1.fs, plugin_path)))
                  ELSE Ok(s), LAMBDA s2 :
             Then(OnFs(s2, MakeDirs(s2.fs, plugin_path)), LAMBDA s3 :
             Then(OnFs(s3, ExtractAll(s3.fs, members, plugin_path)), LAMBDA s4 :
             Then(log_each(s4, "Extracted", Cardinality(members)), LAMBDA s5 :
             Then(log_output(s5, "Plugin recovered successfully"), LAMBDA s6 :
             show_popup(s6))))))

recover_from_zip(s, zip_file) ==
    LET zip_path == BackupPath(s) \o <<zip_file>>
        plugin_name == StripZip(zip_file)
        plugin_path == PluginRoot \o <<plugin_name>>
    IN  Then(log_output(s, "Recovering plugin from zip"), LAMBDA s1 :
        Then(log_output(s1, "Zip file path"), LAMBDA s2 :
        Then(log_output(s2, "Extracting to"), LAMBDA s3 :
        Then(Try(recover_body(s3, zip_path, plugin_path), LAMBDA s4 :
                 Then(log_output(s4, "Error recovering plugin"), LAMBDA s5 :
                 show_popup(s5))),
             LAMBDA s6 : Ok(load_plugins(s6))))))

clear_log(s) ==
    log_output([s EXCEPT !.log_history = <<>>, !.settings_log = <<>>], "Log cleared.")

\* what install_from_zip does after the question about an existing plugin
install_zip_rest(s, target_dir, content) ==
    Then(OnFs(s, MakeDirsExistOk(s.fs, target_dir)), LAMBDA s1 :
    IF content.kind # "zip" THEN [s |-> s1, exc |-> "BadZipFile"]
    ELSE Then(OnFs(s1, ExtractAll(s1.fs, content.members, target_dir)), LAMBDA s2 :
         Then(log_output(s2, "Successfully installed plugin from zip"), LAMBDA s3 :
         Then(show_popup(s3), LAMBDA s4 :
         Ok(load_plugins(s4))))))

\* install_from_zip removing the existing plugin before the reply is looked at
install_from_zip_removing(s, zip_name, content, reply) ==
    LET plugin_name == StripZip(zip_name)
        target_dir == PluginRoot \o <<plugin_name>>
    IN  Try(IF Exists(s.fs, target_dir)
            THEN Then(OnFs(s, RmTree(s.fs, target_dir)), LAMBDA s1 :
                 IF reply = "Yes" THEN install_zip_rest(s1, target_dir, content)
                 ELSE Ok(s1))
            ELSE install_zip_rest(s, target_dir, content),
            LAMBDA s2 : Then(log_output(s2, "Error installing plugin from zip"), LAMBDA s3 :
                        show_popup(s3)))

\* zip_name: the base name of the chosen file; content: what the file holds;
\* reply: the answer to "already exists. Do you want to replace it?"
install_from_zip(s, zip_name, content, reply) ==
    LET plugin_name == StripZip(zip_name)
        target_dir == PluginRoot \o <<plugin_name>>
    IN  Try(IF Exists(s.fs, target_dir)
            THEN IF reply = "Yes"
                 THEN Then(OnFs(s, RmTree(s.fs, target_dir)), LAMBDA s1 :
                      install_zip_rest(s1, target_dir, content))
                 ELSE Ok(s)
            ELSE install_zip_rest(s, target_dir, content),
            LAMBDA s2 : Then(log_output(s2, "Error installing plugin from zip"), LAMBDA s3 :
                        show_popup(s3)))

\* what install_from_folder does after the question about an existing plugin
install_folder_rest(s, target_dir, tree) ==
    Then(OnFs(s, CopyTree(s.fs, tree, target_dir)), LAMBDA s1 :
    Then(log_output(s1, "Successfully installed plugin from folder"), LAMBDA s2 :
    Then(show_popup(s2), LAMBDA s3 :
    Ok(load_plugins(s3)))))

\* folder_name: os.path.basename of the chosen folder; tree: what it holds
install_from_folder(s, folder_name, tree, reply) ==
    LET target_dir == PluginRoot \o <<folder_name>>
    IN  Try(IF Exists(s.fs, target_dir)
            THEN IF reply = "Yes"
                 THEN Then(OnFs(s, RmTree(s.fs, target_dir)), LAMBDA s1 :
                      install_folder_rest(s1, target_dir, tree))
                 ELSE Ok(s)
            ELSE install_folder_rest(s, target_dir, tree),
            LAMBDA s2 : Then(log_output(s2, "Error installing plugin from folder"), LAMBDA s3 :
                        show_popup(s3)))

\* install_plugin: the version is incremented, then the dialog yields a zip
\* file, a folder (handle_folder_selection) or nothing
install_plugin(s, choice, reply) ==
    LET s1 == increment_version(s).s
    IN  CASE choice.kind = "zip" -> install_from_zip(s1, choice.name, choice.content, reply)
          [] choice.kind = "folder" -> install_from_folder(s1, choice.name, choice.tree, reply)
          [] OTHER -> Ok(s1)

\* select_backup_folder with a folder chosen in the dialog
select_backup_folder(s, folder) == Ok([s EXCEPT !.backup_folder = folder])

(***************************************************************************)
(* The bounded world: plugin trees, backup entries, install sources,       *)
(* stored versions.                                                        *)
(***************************************************************************)
FileTxt == << <<"file.txt">> >>
SubG == << <<"sub">>, <<"g.txt">> >>

\* a directory tree, paths relative to its root, holding the given files
TreeOf(files) ==
    {Dir(<<>>)} \cup {File(m.arc, m.content) : m \in files}
    \cup UNION {{Dir(SubSeq(m.arc, 1, i)) : i \in 1..(Len(m.arc) - 1)} : m \in files}

MembersA == {[arc |-> FileTxt, content |-> Blob(1, 1)]}
MembersB == {[arc |-> FileTxt, content |-> Blob(2, 1)], [arc |-> SubG, content |-> Blob(1, 1)]}
MembersZero == {[arc |-> FileTxt, content |-> Blob(3, 0)]}

\* the trees a plugin folder may hold at the start: files with bytes, one
\* empty file, no file at all
PluginTrees == {TreeOf(MembersA), TreeOf(MembersB), TreeOf(MembersZero), TreeOf({})}

\* what the backup folder may hold at the start, paths relative to it: a
\* disabled plugin Foo, an archive Foo.zip, an unreadable Foo_1.zip
BackupCandidates ==
    {Place(TreeOf(MembersB), <<Foo>>),
     {File(<<FooZip>>, Archive(MembersA))},
     {File(<<Foo1Zip>>, BadZip)}}

\* what the install dialog may yield
Choices ==
    {[kind |-> "cancel", name |-> <<>>, content |-> NoContent, tree |-> {}],
     [kind |-> "zip", name |-> FooZip, content |-> Archive(MembersA), tree |-> {}],
     [kind |-> "zip", name |-> FooZip, content |-> BadZip, tree |-> {}],
     [kind |-> "folder", name |-> Foo, content |-> NoContent, tree |-> TreeOf(MembersA)]}

\* QSettings holds no "version"
Unset == <<"unset">>
StoredVersions ==
    {Unset, <<>>, <<"0", ".", "9", "9", "9">>, <<"1", ".", "5">>, <<"7">>, <<".", "5">>,
     <<"1", "0", ".", "0", "0", "9">>, <<"v", "1">>, <<"1", ".", "2", ".", "3">>, <<".">>}

PluginArgs == {Foo, BackupName}
BackupItems == {Foo, FooZip, Foo1Zip}

State == [fs |-> fs, version |-> version, settings_version |-> settings_version,
          log_history |-> log_history, settings_log |-> settings_log,
          backup_folder |-> backup_folder, plugin_list |-> plugin_list, bumps |-> bumps]

Call(op, arg, reply) == [op |-> op, arg |-> arg, reply |-> reply, exc |-> "none"]

\* the handler's result becomes the next state; outcome records the call
Run(r, call) ==
    /\ fs' = r.s.fs
    /\ version' = r.s.version
    /\ settings_version' = r.s.settings_version
    /\ log_history' = r.s.log_history
    /\ settings_log' = r.s.settings_log
    /\ backup_folder' = r.s.backup_folder
    /\ plugin_list' = r.s.plugin_list
    /\ bumps' = r.s.bumps
    /\ outcome' = [call EXCEPT !.exc = r.exc]

\* __init__ over the given disk contents and stored version: settings are
\* read, the version defaults to INITIAL_VERSION (and is stored when an empty
\* one was stored), init_ui lists the plugins
Construct(tree, entries, chosen, stored) ==
    LET root == IF chosen # <<>> THEN chosen ELSE PluginRoot \o <<BackupName>>
        disk == {Dir(PluginRoot), Dir(ChosenBackup)}
                \cup Place(tree, PluginRoot \o <<Foo>>)
                \cup (IF entries = {} THEN {} ELSE {Dir(root)})
                \cup UNION {Place(e, root) : e \in entries}
        falsy == stored = <<>>
        listed == load_plugins([fs |-> disk, plugin_list |-> <<>>])
    IN  /\ fs = disk
        /\ version = IF stored = Unset \/ falsy THEN INITIAL_VERSION ELSE stored
        /\ settings_version = IF falsy THEN INITIAL_VERSION ELSE stored
        /\ log_history = <<>>
        /\ settings_log = <<>>
        /\ backup_folder = chosen
        /\ plugin_list = listed.plugin_list
        /\ bumps = 0
        /\ outcome = Call("init", <<>>, "-")

\* a first start (no stored version) over every disk of the bounded world
Init ==
    \E tree \in PluginTrees \cup {{}}, entries \in SUBSET BackupCandidates,
       chosen \in {<<>>, ChosenBackup} :
        Construct(tree, entries, chosen, Unset)

\* every stored version over one disk: Foo installed, every backup entry there
InitVersions ==
    \E chosen \in {<<>>, ChosenBackup}, stored \in StoredVersions :
        Construct(TreeOf(MembersA), BackupCandidates, chosen, stored)

CanBump == bumps < MaxBumps
CanLog == Len(log_history) < MaxLogLen

DeletePlugin ==
    \E folder \in PluginArgs :
        CanBump /\ Run(delete_plugin(State, folder), Call("delete_plugin", folder, "-"))

DisablePlugin ==
    \E folder \in PluginArgs :
        CanBump /\ Run(disable_plugin(State, folder), Call("disable_plugin", folder, "-"))

BackupPlugin ==
    \E folder \in PluginArgs :
        CanBump /\ CanLog /\ Run(backup_plugin(State, folder), Call("backup_plugin", folder, "-"))

RestorePlugin ==
    \E item \in BackupItems :
        CanBump /\ CanLog /\ Run(restore_plugin(State, item), Call("restore_plugin", item, "-"))

DeleteBackup ==
    \E item \in BackupItems :
        CanLog /\ Run(delete_backup(State, item), Call("delete_backup", item, "-"))

RecoverFromZip ==
    \E zip_file \in {i \in BackupItems : EndsWithZip(i)} :
        CanLog /\ Run(recover_from_zip(State, zip_file), Call("recover_from_zip", zip_file, "-"))

ClearLog ==
    LET cleared == clear_log(State)
    IN  Run(cleared, Call("clear_log", <<>>, "-"))

InstallPlugin ==
    \E choice \in Choices, reply \in {"Yes", "No"} :
        CanBump /\ CanLog
        /\ Run(install_plugin(State, choice, reply), Call("install_plugin", choice.name, reply))

SelectBackupFolder ==
    /\ IsDir(fs, ChosenBackup)
    /\ Run(select_backup_folder(State, ChosenBackup), Call("select_backup_folder", ChosenBackup, "-"))

Next ==
    \/ DeletePlugin
    \/ DisablePlugin
    \/ BackupPlugin
    \/ RestorePlugin
    \/ DeleteBackup
    \/ RecoverFromZip
    \/ ClearLog
    \/ InstallPlugin
    \/ SelectBackupFolder

Spec == Init /\ [][Next]_vars

SpecVersions == InitVersions /\ [][Next]_vars

(***************************************************************************)
(* Properties.  A step of Next is one handler call: outcome' names the     *)
(* handler, its argument and the exception that left it, the unprimed      *)
(* variables are the state the call found.                                 *)
(***************************************************************************)
\* list(): the directories under the plugin root
Listed(f) == {folder \in ListDir(f, PluginRoot) : IsDir(f, PluginRoot \o <<folder>>)}
\* the files of a tree or of a set of nodes, as (relative path, bytes) pairs
FilesOf(t) == {<<n.path, n.content>> : n \in {m \in t : ~m.isdir}}
Last(seq) == seq[Len(seq)]

\* the archive name the backup contract promises: folder.zip when that name
\* is free, else folder_k.zip for the least k >= 1 whose name is free
PromisedArchiveName(f, backup_path, folder) ==
    IF ~Exists(f, backup_path \o <<ZipName(folder)>>) THEN ZipName(folder)
    ELSE NumberedZipName(folder,
             CHOOSE k \in 1..4 :
                 /\ ~Exists(f, backup_path \o <<NumberedZipName(folder, k)>>)
                 /\ \A j \in 1..(k - 1) : Exists(f, backup_path \o <<NumberedZipName(folder, j)>>))

\* the step is a call of backup_plugin on an installed plugin
BackupStepOn(folder) ==
    /\ outcome'.op = "backup_plugin"
    /\ outcome'.arg = folder
    /\ IsDir(fs, PluginRoot \o <<folder>>)

\* C1: backup(name) of an installed plugin with total size > 0 creates the
\* archive under the first free name of name.zip, name_1.zip, name_2.zip, ...
\* and every node that was in the backup folder is still there, unchanged.
C1_BackupCreatesFreshArchive ==
    [][\A folder \in PluginArgs :
         (BackupStepOn(folder) /\ TotalSize(fs, PluginRoot \o <<folder>>) > 0) =>
            LET backup_path == BackupPath(State)
                zip_path == backup_path \o <<PromisedArchiveName(fs, backup_path, folder)>>
            IN  /\ \E n \in fs' : n.path = zip_path /\ n.content.kind = "zip"
                /\ Under(fs, backup_path) \subseteq fs']_vars

\* C2: backup(name) of a plugin tree T with total size > 0 produces an
\* archive whose extraction into an empty target yields exactly the files of
\* T: the same relative paths, each with the same bytes.
C2_PackUnpackRoundTrip ==
    [][\A folder \in PluginArgs :
         (BackupStepOn(folder) /\ TotalSize(fs, PluginRoot \o <<folder>>) > 0) =>
            \E z \in fs' \ fs :
                /\ z.content.kind = "zip"
                /\ IsPrefix(BackupPath(State), z.path)
                /\ FilesOf(ExtractAll({}, z.content.members, <<>>).fs)
                     = FilesOf(TreeAt(fs, PluginRoot \o <<folder>>))]_vars

\* C3: backup(name) of an installed plugin whose files sum to 0 bytes ends
\* with the empty-source warning, returns, and leaves the backup folder's
\* entries as they were: no archive is created.
C3_EmptySourceAborts ==
    [][\A folder \in PluginArgs :
         (BackupStepOn(folder) /\ TotalSize(fs, PluginRoot \o <<folder>>) = 0) =>
            /\ outcome'.exc = "none"
            /\ Last(log_history') = "Warning: Plugin folder is empty."
            /\ Under(fs', BackupPath(State)) \ {Dir(BackupPath(State))}
                 = Under(fs, BackupPath(State)) \ {Dir(BackupPath(State))}]_vars

\* the plugin name install derives from the chosen file or folder
DerivedName(name) == IF EndsWithZip(name) THEN StripZip(name) ELSE name

\* C4: install(source, Keep) of a source whose derived name is already
\* installed leaves every plugin and every backup entry as it was: no node
\* of the file system is added, removed or changed.
C4_KeepLeavesDiskUnchanged ==
    [][(/\ outcome'.op = "install_plugin"
        /\ outcome'.reply = "No"
        /\ outcome'.arg # <<>>
        /\ Exists(fs, PluginRoot \o <<DerivedName(outcome'.arg)>>)) => fs' = fs]_vars

\* C4 witness: an install from Foo.zip answered No has returned, Foo installed
C4_Witness ==
    /\ outcome.op = "install_plugin"
    /\ outcome.reply = "No"
    /\ outcome.arg = FooZip
    /\ outcome.exc = "none"
    /\ IsDir(fs, PluginRoot \o <<Foo>>)
    /\ FilesOf(TreeAt(fs, PluginRoot \o <<Foo>>)) # {}

\* C5: disable(name) of any listed name, the backup folder holding no entry
\* of that name, moves the plugin: name is no longer listed and the backup
\* folder holds a directory name with the tree the plugin had.
C5_DisableMovesListedPlugin ==
    [][(/\ outcome'.op = "disable_plugin"
        /\ outcome'.arg \in Listed(fs)
        /\ ~Exists(fs, BackupPath(State) \o <<outcome'.arg>>)) =>
            /\ outcome'.arg \notin Listed(fs')
            /\ IsDir(fs', BackupPath(State) \o <<outcome'.arg>>)
            /\ TreeAt(fs', BackupPath(State) \o <<outcome'.arg>>)
                 = TreeAt(fs, PluginRoot \o <<outcome'.arg>>)]_vars

\* C6: restore(name) called right after a disable(name) that moved the plugin
\* to the backup folder brings it back: name is listed again with the tree
\* it had, at pluginRoot/name, and the backup folder no longer holds name.
C6_DisableRestoreRoundTrip ==
    [][(/\ outcome.op = "disable_plugin"
        /\ outcome.exc = "none"
        /\ outcome'.op = "restore_plugin"
        /\ outcome'.arg = outcome.arg
        /\ ~Exists(fs, BackupPath(State) \o <<outcome.arg, outcome.arg>>)) =>
            /\ outcome'.arg \in Listed(fs')
            /\ TreeAt(fs', PluginRoot \o <<outcome'.arg>>)
                 = TreeAt(fs, BackupPath(State) \o <<outcome'.arg>>)
            /\ ~Exists(fs', BackupPath(State) \o <<outcome'.arg>>)]_vars

MutatingOps == {"install_plugin", "disable_plugin", "delete_plugin", "backup_plugin",
                "restore_plugin", "recover_from_zip", "delete_backup"}

\* C7: every call of a mutating operation appends exactly one line to the
\* log history and increments the version exactly once.
C7_OneLogOneVersionPerCall ==
    [][outcome'.op \in MutatingOps =>
         /\ Len(log_history') = Len(log_history) + 1
         /\ bumps' = bumps + 1]_vars

\* C8: every append to the log history completes and persists the retained
\* history: after a step that appended, the stored history is the retained
\* one and the handler was not left by log_output's exception.
C8_AppendCompletesAndPersists ==
    [][(log_history' # log_history /\ log_history' # <<>>) =>
         /\ settings_log' = log_history'
         /\ outcome'.exc # "NameError"]_vars

\* the characters after the point
FractionOf(str) ==
    LET dots == {i \in 1..Len(str) : str[i] = "."}
    IN  IF dots = {} THEN <<>> ELSE SubSeq(str, (CHOOSE i \in dots : TRUE) + 1, Len(str))

\* C9: increment_version on a version that parses as v thousandths stores
\* and returns v + 0.001 written with three decimals; on one that does not
\* parse it stores nothing, returns the version as it is and raises nothing;
\* and no step of any operation lowers the version.
C9_IncrementVersion ==
    [][LET v == ParseFloat(version)
           r == increment_version(State)
       IN  /\ bumps' = bumps + 1 =>
                IF v # ValueError
                THEN /\ ParseFloat(version') = v + 1
                     /\ Len(FractionOf(version')) = 3
                     /\ settings_version' = version'
                     /\ r.ret = version'
                ELSE /\ version' = version
                     /\ settings_version' = settings_version
                     /\ r.ret = version
           /\ bumps' = bumps => version' = version
           /\ v # ValueError => ParseFloat(version') >= v]_vars

\* C9 witness: the stored "0.999" was incremented once, across the carry
C9_Witness ==
    /\ bumps = 1
    /\ version = <<"1", ".", "0", "0", "0">>
    /\ settings_version = version

\* C10: no handler is left by an exception.
C10_NoExceptionEscapes == outcome.exc = "none"

\* C11: disable(name) of a listed name, the backup folder already holding an
\* entry called name, fails: an exception reports the conflict, name is still
\* listed afterwards and the existing entry's tree is as it was (nothing has
\* been moved into it).
C11_DisableConflictFails ==
    [][(/\ outcome'.op = "disable_plugin"
        /\ outcome'.arg \in Listed(fs)
        /\ Exists(fs, BackupPath(State) \o <<outcome'.arg>>)) =>
            /\ outcome'.exc # "none"
            /\ outcome'.arg \in Listed(fs')
            /\ Under(fs', BackupPath(State) \o <<outcome'.arg>>)
                 = Under(fs, BackupPath(State) \o <<outcome'.arg>>)]_vars

\* the files of the archive at p, as (member path, bytes) pairs
ArchiveFiles(f, p) == {<<m.arc, m.content>> : m \in Members(f, p)}

\* the step is a call of op on an archive of the backup folder that opens
ArchiveStep(op) ==
    /\ outcome'.op = op
    /\ EndsWithZip(outcome'.arg)
    /\ OpenZip(fs, BackupPath(State) \o <<outcome'.arg>>) = "none"

\* C12: recover_from_zip of an archive E.zip that opens always overwrites:
\* after the call pluginRoot/E holds exactly the files of the archive, and
\* no file of an earlier installation of E is left.
C12_RecoverOverwrites ==
    [][ArchiveStep("recover_from_zip") =>
         FilesOf(TreeAt(fs', PluginRoot \o <<StripZip(outcome'.arg)>>))
           = ArchiveFiles(fs, BackupPath(State) \o <<outcome'.arg>>)]_vars

\* C13: restore_plugin of an archive E.zip that opens, pluginRoot/E existing,
\* extracts over it: afterwards every member of the archive is a file of
\* pluginRoot/E with the archive's bytes, and every file that was there under
\* a path the archive does not hold is still there with its bytes.
C13_RestoreMergesIntoExisting ==
    [][(/\ ArchiveStep("restore_plugin")
        /\ Exists(fs, PluginRoot \o <<StripZip(outcome'.arg)>>)) =>
            LET plugin_path == PluginRoot \o <<StripZip(outcome'.arg)>>
                archived == ArchiveFiles(fs, BackupPath(State) \o <<outcome'.arg>>)
                before == FilesOf(TreeAt(fs, plugin_path))
                after == FilesOf(TreeAt(fs', plugin_path))
            IN  /\ archived \subseteq after
                /\ \A file \in before :
                     (\A a \in archived : a[1] # file[1]) => file \in after]_vars

\* C14: with no backup folder chosen (the default <pluginRoot>/backup), a
\* delete_plugin or disable_plugin of any listed name leaves every entry the
\* backup folder held with the tree it had, and the listed name is never the
\* backup folder itself.
C14_ListedOpsKeepBackups ==
    [][(/\ backup_folder = <<>>
        /\ outcome'.op \in {"delete_plugin", "disable_plugin"}
        /\ outcome'.arg \in Listed(fs)) =>
            /\ PluginRoot \o <<outcome'.arg>> # BackupPath(State)
            /\ \A entry \in ListDir(fs, BackupPath(State)) :
                 TreeAt(fs', BackupPath(State) \o <<entry>>)
                   = TreeAt(fs, BackupPath(State) \o <<entry>>)]_vars

\* the file system has P installed from the archive at zip_path and no
\* top-level name the earlier one did not have
ReinstalledAs(after, earlier, folder, zip_path) ==
    /\ IsDir(after, PluginRoot \o <<folder>>)
    /\ ArchiveFiles(earlier, zip_path) \subseteq FilesOf(TreeAt(after, PluginRoot \o <<folder>>))
    /\ ListDir(after, PluginRoot) \subseteq ListDir(earlier, PluginRoot)

\* C15: backup_plugin(P) of an installed plugin with total size > 0 leaves a
\* new archive in the backup folder, under P.zip or a collision name P_k.zip,
\* and both restore_plugin and recover_from_zip of that archive, called next,
\* install its files at pluginRoot/P and under no other name.
C15_BackupThenRestoreKeepsName ==
    [][\A folder \in PluginArgs :
         (BackupStepOn(folder) /\ TotalSize(fs, PluginRoot \o <<folder>>) > 0) =>
            \E z \in fs' \ fs :
                /\ z.content.kind = "zip"
                /\ IsPrefix(BackupPath(State), z.path)
                /\ ReinstalledAs(restore_plugin(State', Last(z.path)).s.fs, fs', folder, z.path)
                /\ ReinstalledAs(recover_from_zip(State', Last(z.path)).s.fs, fs', folder, z.path)]_vars

\* the step is an install from an archive that could not be opened: the call
\* logged the error line and no line of success before it
FailedZipInstallStep ==
    /\ outcome'.op = "install_plugin"
    /\ EndsWithZip(outcome'.arg)
    /\ log_history' = Append(log_history, "Error installing plugin from zip")

\* C16: an install from an archive that cannot be opened destroys nothing:
\* a plugin of that name installed before, the question answered Yes, is
\* still there with the tree it had; and a name that was not installed is
\* not listed afterwards.
C16_FailedInstallKeepsPlugin ==
    [][FailedZipInstallStep =>
         LET plugin_name == StripZip(outcome'.arg)
             target_dir == PluginRoot \o <<plugin_name>>
         IN  /\ (IsDir(fs, target_dir) /\ outcome'.reply = "Yes") =>
                    TreeAt(fs', target_dir) = TreeAt(fs, target_dir)
             /\ ~Exists(fs, target_dir) => plugin_name \notin Listed(fs')]_vars

\* C17: recover_from_zip of an archive E.zip that is missing or does not
\* open, pluginRoot/E existing, leaves pluginRoot/E with the tree it had, and
\* the last line of the log reports the failure.
C17_RecoverFailureKeepsTarget ==
    [][(/\ outcome'.op = "recover_from_zip"
        /\ OpenZip(fs, BackupPath(State) \o <<outcome'.arg>>) # "none"
        /\ Exists(fs, PluginRoot \o <<StripZip(outcome'.arg)>>)) =>
            /\ TreeAt(fs', PluginRoot \o <<StripZip(outcome'.arg)>>)
                 = TreeAt(fs, PluginRoot \o <<StripZip(outcome'.arg)>>)
            /\ Last(log_history') = "Error recovering plugin"]_vars

============================================================================
